---- MODULE Spec2Model ----
(***************************************************************************)
(* Model of src/utils/input_handler.py: get_job_data and the session      *)
(* directory helpers get_daily_session_path / clear_old_sessions.          *)
(* One call of get_job_data is a process that walks the statements of the  *)
(* function; the file system (.linkedin/session_<day>), the calendar day   *)
(* and the environment variables are shared state.                         *)
(***************************************************************************)
EXTENDS Integers, Sequences, FiniteSets, TLC

\* ---------------------------------------------------------------- bounds
\* Calendar days are 0..MaxDay.
MaxDay == 2
\* A captured page holds at most MaxElems elements of interest.
MaxElems == 2
\* A PDF holds at most MaxPages pages.
MaxPages == 2

Days == 0..MaxDay
\* The callers of get_job_data: main.py makes one call at a time (Seq);
\* two concurrent callers are the batch-processing case of the design.
Procs == {1, 2}
SeqProcs == {1}

None == "None"

\* ------------------------------------------------------------------ text
\* A text is a sequence of characters; " " stands for any whitespace.
IsSpace(c) == c = " "

RECURSIVE SplitFrom(_, _, _)
\* str.split(): the maximal runs of non-whitespace characters, in order.
SplitFrom(s, i, cur) ==
    IF i > Len(s) THEN (IF cur = <<>> THEN <<>> ELSE <<cur>>)
    ELSE IF IsSpace(s[i])
         THEN (IF cur = <<>> THEN <<>> ELSE <<cur>>) \o SplitFrom(s, i + 1, <<>>)
         ELSE SplitFrom(s, i + 1, Append(cur, s[i]))

Split(s) == SplitFrom(s, 1, <<>>)

RECURSIVE Join(_)
\* ' '.join(words)
Join(words) ==
    IF words = <<>> THEN <<>>
    ELSE IF Len(words) = 1 THEN words[1]
    ELSE words[1] \o <<" ">> \o Join(Tail(words))

\* ' '.join(text.split())
Normalize(s) == Join(Split(s))

RECURSIVE StripLeft(_)
StripLeft(s) == IF s # <<>> /\ IsSpace(s[1]) THEN StripLeft(Tail(s)) ELSE s

RECURSIVE StripRight(_)
StripRight(s) ==
    IF s # <<>> /\ IsSpace(s[Len(s)]) THEN StripRight(SubSeq(s, 1, Len(s) - 1)) ELSE s

\* get_text(strip=True) of an element holding one text node
Strip(s) == StripRight(StripLeft(s))

\* The texts pages and files carry.
Texts == { <<>>, <<"a">>, <<" ", "b", " ", " ", "c">> }

\* The texts the elements of a captured page carry.
ElemTexts == { <<>>, <<" ", "b", " ", " ", "c">> }

UnknownCompany == <<"Unknown Company">>

\* ------------------------------------------------------------------ URLs
\* A URL is its host and the rest (path and query), each a sequence of
\* tokens; the URL string is "https://" host "/" rest, concatenated.
Urls ==
    { [host |-> <<"example.com">>,           rest |-> <<"jobs/1">>],
      [host |-> <<"www.", "linkedin.com">>,  rest |-> <<"jobs/1">>],
      [host |-> <<"example.com">>,           rest |-> <<"?ref=", "linkedin.com">>],
      [host |-> <<"not", "linkedin.com">>,   rest |-> <<"jobs/1">>] }

UrlTokens(u) == u.host \o <<"/">> \o u.rest

\* 'linkedin.com' in source_value: a substring test on the whole URL string.
\* No token but "linkedin.com" holds it, and no two tokens join into it.
ContainsLinkedin(u) == \E i \in 1..Len(UrlTokens(u)) : UrlTokens(u)[i] = "linkedin.com"


\* ----------------------------------------------------------------- pages
\* The selectors get_job_data names.
shell_selector == "input.search-global-typeahead__input"
email_field_selector == "input#username"
password_field_selector == "input#password"
submit_selector == "button[data-litms-control-urn=login-submit]"
apply_button_selector == "button.jobs-apply-button"
job_details_selector == "div#job-details"
description_text_selector == "div.description__text"

\* company_name_selector: one CSS selector group, three alternatives.
company_name_selector ==
    << "div.job-details-jobs-unified-top-card__company-name a",
       "a.topcard__org-name-link",
       "a.app-aware-link[data-test-app-aware-link]" >>

Range(f) == { f[i] : i \in DOMAIN f }

\* An element of a captured page: the selector it matches and its text.
ElemKinds == Range(company_name_selector) \cup {job_details_selector, description_text_selector}
Elems == [sel : ElemKinds, text : ElemTexts]

SeqsUpTo(S, n) == UNION { [1..k -> S] : k \in 0..n }

\* The markups page.content() can return.
Markups == SeqsUpTo(Elems, MaxElems)

\* The markers of the job page that a wait or a parse looks for.
PageMarkers == {apply_button_selector, job_details_selector, description_text_selector}

\* What select_one and find return when nothing matches (Python's None).
NoElem == [sel |-> None, text |-> <<>>]

\* soup.select_one(group): the first element, in document order, that
\* matches any alternative of the selector group.
SelectOne(markup, group) ==
    LET hits == { i \in 1..Len(markup) : markup[i].sel \in Range(group) }
    IN  IF hits = {} THEN NoElem
        ELSE markup[CHOOSE i \in hits : \A j \in hits : i <= j]

\* soup.find('div', ...): the first element matching one selector.
Find(markup, sel) == SelectOne(markup, <<sel>>)

\* The company name without the default of line 176.
ScrapeCompanyNameNoDefault(markup) == Strip(SelectOne(markup, company_name_selector).text)

\* lines 171-177: the company name read from the captured markup.
ScrapeCompanyName(markup) ==
    LET company_element == SelectOne(markup, company_name_selector)
    IN  IF company_element # NoElem THEN Strip(company_element.text) ELSE UnknownCompany

\* lines 179-182: soup.find(id='job-details') or soup.find(class_='description__text')
JobDescContainer(markup) ==
    IF Find(markup, job_details_selector) # NoElem
    THEN Find(markup, job_details_selector)
    ELSE Find(markup, description_text_selector)


\* ----------------------------------------------------------------- state
VARIABLES
    today,          \* the calendar day datetime.now() falls in
    dirs,           \* the days d for which .linkedin/session_<d> exists
    env,            \* LINKEDIN_EMAIL and LINKEDIN_PASSWORD, loaded at import
    pc,             \* where each call of get_job_data stands
    request,        \* source_type and source_value of the call
    fetched,        \* the simple fetch of the call: none, pending, ok, error
    auth,           \* how many times the call entered the login method
    session_path,   \* line 103: the profile directory of the call
    today_session,  \* line 33: today's directory as clear_old_sessions sees it
    others,         \* what else lies in .linkedin besides session_<d> directories
    pending,        \* line 38: the entries of the glob not yet visited
    pending_names,  \* line 38: the other entries the glob matched, not yet visited
    listed,         \* line 38: the session directories the glob matched
    browser,        \* the persistent context: its state and its profile
    steps,          \* the page operations the call has issued, in order
    rendered,       \* the markers the job page rendered during the wait
    html_content,   \* line 158: the captured markup
    company_name,   \* lines 171-177
    result,         \* the ScrapedJobData returned
    error           \* the exception raised to the caller

fsVars == <<today, dirs, env, others>>
globVars == <<pending, pending_names, listed>>
callVars == <<pc, request, fetched, auth, session_path, today_session, pending,
              pending_names, listed, browser, steps, rendered, html_content, company_name, result, error>>
vars == <<today, dirs, env, others, pc, request, fetched, auth, session_path,
          today_session, pending, pending_names, listed, browser, steps, rendered, html_content, company_name, result, error>>

\* Entries of .linkedin that are no session_<day> directory: a regular
\* file whose name the glob matches, and a directory it does not match.
OtherEntries ==
    { [prefix |-> "session_", rest |-> "notes.txt", is_dir |-> FALSE],
      [prefix |-> "", rest |-> "cache", is_dir |-> TRUE] }

\* base_dir.glob("session_*") (line 38)
GlobMatches(e) == e.prefix = "session_"

\* A purge that does not ask whether the entry is a directory.
IsDirectoryAlways(e) == TRUE

\* session_path.is_dir() (line 39)
IsDirectory(e) == e.is_dir

NoDay == -1
NoBrowser == [state |-> "none", dir |-> NoDay]
NoResult == [company_name |-> <<>>, job_description_text |-> <<>>, set |-> FALSE]
NoError == [type |-> None, at |-> None]
NoRequest == [source_type |-> None, source_value |-> <<>>]
NoMarkup == <<>>
NoName == <<None>>

\* os.getenv: unset, set to the empty string, or set to a value.
EnvValues == {None, "", "value"}

\* The check with `and` for `or`: only both missing stops the call.
CredentialsMissingBoth(e) ==
    /\ e.email = None \/ e.email = ""
    /\ e.password = None \/ e.password = ""

\* `not email or not password` (line 96)
CredentialsMissing(e) ==
    \/ e.email = None \/ e.email = ""
    \/ e.password = None \/ e.password = ""

\* The requests a caller can make.
UrlRequests == { [source_type |-> "url", source_value |-> u] : u \in Urls }
TextRequests == { [source_type |-> "text", source_value |-> t] : t \in Texts }
PdfRequests == { [source_type |-> "pdf", source_value |-> <<"sample.pdf">>] }
OtherRequests == { [source_type |-> "docx", source_value |-> <<"cv.docx">>] }
Requests == UrlRequests \cup TextRequests \cup PdfRequests \cup OtherRequests

\* What page.extract_text() returns for one page: None or a text.
PageTexts == { [isNone |-> TRUE, text |-> <<>>] } \cup
             { [isNone |-> FALSE, text |-> t] : t \in Texts }

TypeOK ==
    /\ today \in Days
    /\ dirs \subseteq Days
    /\ env \in [email : EnvValues, password : EnvValues]
    /\ auth \in [Procs -> 0..2]
    /\ session_path \in [Procs -> Days \cup {NoDay}]
    /\ today_session \in [Procs -> Days \cup {NoDay}]
    /\ pending \in [Procs -> SUBSET Days]
    /\ listed \in [Procs -> SUBSET Days]
    /\ others \subseteq OtherEntries
    /\ pending_names \in [Procs -> SUBSET OtherEntries]
    /\ \A p \in Procs : browser[p].state \in {"none", "open", "closed"}

CallStart ==
    /\ pc = [p \in Procs |-> "idle"]
    /\ request = [p \in Procs |-> NoRequest]
    /\ fetched = [p \in Procs |-> "none"]
    /\ auth = [p \in Procs |-> 0]
    /\ session_path = [p \in Procs |-> NoDay]
    /\ today_session = [p \in Procs |-> NoDay]
    /\ pending = [p \in Procs |-> {}]
    /\ pending_names = [p \in Procs |-> {}]
    /\ listed = [p \in Procs |-> {}]
    /\ browser = [p \in Procs |-> NoBrowser]
    /\ steps = [p \in Procs |-> <<>>]
    /\ rendered = [p \in Procs |-> {}]
    /\ html_content = [p \in Procs |-> NoMarkup]
    /\ company_name = [p \in Procs |-> NoName]
    /\ result = [p \in Procs |-> NoResult]
    /\ error = [p \in Procs |-> NoError]

\* The process starts on some day, with the session directories earlier
\* runs left behind, and with the environment the .env file gave it.
Init ==
    /\ today \in Days
    /\ dirs \in SUBSET (0..today)
    /\ env \in [email : EnvValues, password : EnvValues]
    /\ others = OtherEntries
    /\ CallStart


\* --------------------------------------------------------------- helpers
Returned(p, data) ==
    /\ pc' = [pc EXCEPT ![p] = "done"]
    /\ result' = [result EXCEPT ![p] = data]

ScrapedJobData(name, text) ==
    [company_name |-> name, job_description_text |-> text, set |-> TRUE]

Exception(type, at) == [type |-> type, at |-> at]

\* A with block that leaves the browser as it is.
PlaywrightExitLeaks(b) == b

\* Leaving `with sync_playwright() as p` (line 106): Playwright is stopped,
\* and the browser it launched goes down with it.
PlaywrightExit(b) == IF b.state = "open" THEN [b EXCEPT !.state = "closed"] ELSE b

\* An exception raised inside the try of line 102: it leaves the with
\* block if it was entered, and `except Exception as e: ...; raise`
\* (lines 190-192) hands the same exception to the caller.
Reraise(p, e) ==
    /\ pc' = [pc EXCEPT ![p] = "failed"]
    /\ error' = [error EXCEPT ![p] = e]
    /\ browser' = [browser EXCEPT ![p] = PlaywrightExit(@)]

\* An exception raised outside that try.
Raise(p, e) ==
    /\ pc' = [pc EXCEPT ![p] = "failed"]
    /\ error' = [error EXCEPT ![p] = e]

Issue(p, label) == steps' = [steps EXCEPT ![p] = Append(@, label)]

\* -------------------------------------------------------- get_job_data
\* A caller calls get_job_data(source_type, source_value).
Call(p, reqs) ==
    /\ pc[p] \in {"idle", "done", "failed"}
    /\ \E r \in reqs : request' = [request EXCEPT ![p] = r]
    /\ pc' = [pc EXCEPT ![p] = "dispatch"]
    /\ fetched' = [fetched EXCEPT ![p] = "none"]
    /\ auth' = [auth EXCEPT ![p] = 0]
    /\ session_path' = [session_path EXCEPT ![p] = NoDay]
    /\ today_session' = [today_session EXCEPT ![p] = NoDay]
    /\ pending' = [pending EXCEPT ![p] = {}]
    /\ pending_names' = [pending_names EXCEPT ![p] = {}]
    /\ listed' = [listed EXCEPT ![p] = {}]
    /\ browser' = [browser EXCEPT ![p] = NoBrowser]
    /\ steps' = [steps EXCEPT ![p] = <<>>]
    /\ rendered' = [rendered EXCEPT ![p] = {}]
    /\ html_content' = [html_content EXCEPT ![p] = NoMarkup]
    /\ company_name' = [company_name EXCEPT ![p] = NoName]
    /\ result' = [result EXCEPT ![p] = NoResult]
    /\ error' = [error EXCEPT ![p] = NoError]
    /\ UNCHANGED fsVars

\* line 71: `'linkedin.com' not in source_value`
UseSimpleFetch(source_value) == ~ContainsLinkedin(source_value)

\* lines 70-71, 194, 197, 208: the branch on source_type.
DispatchUrl(p) ==
    /\ pc[p] = "dispatch"
    /\ request[p].source_type = "url"
    /\ IF UseSimpleFetch(request[p].source_value)
       THEN /\ pc' = [pc EXCEPT ![p] = "simple_fetch"]
            /\ fetched' = [fetched EXCEPT ![p] = "pending"]
       ELSE /\ pc' = [pc EXCEPT ![p] = "credentials"]
            /\ UNCHANGED fetched
    /\ UNCHANGED <<fsVars, request, auth, session_path, today_session, globVars, browser,
                   steps, rendered, html_content, company_name, result, error>>

\* The text branch normalising the text like the other branches do.
DispatchTextNormalized(p) ==
    /\ pc[p] = "dispatch"
    /\ request[p].source_type = "text"
    /\ Returned(p, ScrapedJobData(UnknownCompany, Normalize(request[p].source_value)))
    /\ UNCHANGED <<fsVars, request, fetched, auth, session_path, today_session, globVars,
                   browser, steps, rendered, html_content, company_name, error>>

\* lines 194-195
DispatchText(p) ==
    /\ pc[p] = "dispatch"
    /\ request[p].source_type = "text"
    /\ Returned(p, ScrapedJobData(UnknownCompany, request[p].source_value))
    /\ UNCHANGED <<fsVars, request, fetched, auth, session_path, today_session, globVars,
                   browser, steps, rendered, html_content, company_name, error>>

\* line 197
DispatchPdf(p) ==
    /\ pc[p] = "dispatch"
    /\ request[p].source_type = "pdf"
    /\ pc' = [pc EXCEPT ![p] = "read_pdf"]
    /\ UNCHANGED <<fsVars, request, fetched, auth, session_path, today_session, globVars,
                   browser, steps, rendered, html_content, company_name, result, error>>

\* An unknown source_type taken for a file to read.
DispatchInvalidAsPdf(p) ==
    /\ pc[p] = "dispatch"
    /\ request[p].source_type \notin {"url", "text", "pdf"}
    /\ pc' = [pc EXCEPT ![p] = "read_pdf"]
    /\ UNCHANGED <<fsVars, request, fetched, auth, session_path, today_session, globVars,
                   browser, steps, rendered, html_content, company_name, result, error>>

\* lines 208-209
DispatchInvalid(p) ==
    /\ pc[p] = "dispatch"
    /\ request[p].source_type \notin {"url", "text", "pdf"}
    /\ Raise(p, Exception("ValueError", "source_type"))
    /\ UNCHANGED <<fsVars, request, fetched, auth, session_path, today_session, globVars,
                   browser, steps, rendered, html_content, company_name, result>>

RECURSIVE ConcatPages(_)
\* lines 202-203: text += page.extract_text() or ""
ConcatPages(pages) ==
    IF pages = <<>> THEN <<>>
    ELSE (IF pages[1].isNone THEN <<>> ELSE pages[1].text) \o ConcatPages(Tail(pages))

\* lines 198-206: the file opens and parses into pages, or it does not.
ReadPdf(p) ==
    /\ pc[p] = "read_pdf"
    /\ \/ \E pages \in SeqsUpTo(PageTexts, MaxPages) :
            /\ Returned(p, ScrapedJobData(UnknownCompany, Normalize(ConcatPages(pages))))
            /\ UNCHANGED error
       \/ /\ Raise(p, Exception("Exception", "Error reading PDF file"))
          /\ UNCHANGED result
    /\ UNCHANGED <<fsVars, request, fetched, auth, session_path, today_session, globVars,
                   browser, steps, rendered, html_content, company_name>>

\* What lines 75-81 can raise: requests.get, raise_for_status, and
\* soup.body.get_text when the document has no body.
FetchErrors == { Exception("ConnectionError", "requests.get"),
                 Exception("HTTPError", "raise_for_status"),
                 Exception("AttributeError", "soup.body") }

\* The fetch succeeded, but the function does not return there.
SimpleFetchOkFallsThrough(p, body) ==
    /\ fetched' = [fetched EXCEPT ![p] = "ok"]
    /\ pc' = [pc EXCEPT ![p] = "credentials"]
    /\ UNCHANGED <<result, error>>

\* lines 79-82: the fetch succeeded and the body parsed.
SimpleFetchOk(p, body) ==
    /\ fetched' = [fetched EXCEPT ![p] = "ok"]
    /\ Returned(p, ScrapedJobData(UnknownCompany, Normalize(body)))
    /\ UNCHANGED error

\* The error of the fetch is not caught: it goes to the caller.
SimpleFetchFailedRaises(p, e) ==
    /\ fetched' = [fetched EXCEPT ![p] = "error"]
    /\ Raise(p, e)
    /\ UNCHANGED result

\* lines 83-84: `except Exception as e`: print, and fall out of the if.
SimpleFetchFailed(p, e) ==
    /\ fetched' = [fetched EXCEPT ![p] = "error"]
    /\ pc' = [pc EXCEPT ![p] = "credentials"]
    /\ UNCHANGED <<result, error>>

\* lines 74-84: requests.get, raise_for_status, BeautifulSoup, soup.body.
\* The request fails, the status is an error, the document has no body
\* (soup.body is None), or the body's text is read.
SimpleFetch(p) ==
    /\ pc[p] = "simple_fetch"
    /\ \/ \E body \in Texts : SimpleFetchOk(p, body)
       \/ \E e \in FetchErrors : SimpleFetchFailed(p, e)
    /\ UNCHANGED <<fsVars, request, auth, session_path, today_session, globVars, browser,
                   steps, rendered, html_content, company_name>>

\* lines 89-100: read the credentials; stop when one is missing.
ReadCredentials(p) ==
    /\ pc[p] = "credentials"
    /\ auth' = [auth EXCEPT ![p] = @ + 1]
    /\ IF CredentialsMissing(env)
       THEN Raise(p, Exception("ValueError", "credentials"))
       ELSE /\ pc' = [pc EXCEPT ![p] = "session"]
            /\ UNCHANGED error
    /\ UNCHANGED <<fsVars, request, fetched, session_path, today_session, globVars, browser,
                   steps, rendered, html_content, company_name, result>>


\* ------------------------------------------------------- session store
\* lines 21-29: session_dir.mkdir(parents=True, exist_ok=True)
Mkdir(d) == dirs \cup {d}

\* A purge that takes every session directory for stale.
IsStaleAlways(session, todays) == TRUE

\* line 39: `session_path != today_session`
IsStale(session, todays) == session # todays

\* line 103: session_path = get_daily_session_path()
AcquireSession(p) ==
    /\ pc[p] = "session"
    /\ \/ /\ session_path' = [session_path EXCEPT ![p] = today]
          /\ dirs' = Mkdir(today)
          /\ pc' = [pc EXCEPT ![p] = "clear_old_sessions"]
          /\ UNCHANGED <<error, browser>>
       \/ /\ Reraise(p, Exception("OSError", "mkdir"))
          /\ UNCHANGED <<session_path, dirs>>
    /\ UNCHANGED <<today, env, others, request, fetched, auth, today_session, globVars, steps,
                   rendered, html_content, company_name, result>>

\* lines 32-33: clear_old_sessions computes (and makes) today's directory
\* on its own. Line 35 cannot return after that: the base directory exists.
ClearOldSessions(p) ==
    /\ pc[p] = "clear_old_sessions"
    /\ \/ /\ today_session' = [today_session EXCEPT ![p] = today]
          /\ dirs' = Mkdir(today)
          /\ pc' = [pc EXCEPT ![p] = "glob"]
          /\ UNCHANGED <<error, browser>>
       \/ /\ Reraise(p, Exception("OSError", "mkdir"))
          /\ UNCHANGED <<today_session, dirs>>
    /\ UNCHANGED <<today, env, others, request, fetched, auth, session_path, globVars, steps,
                   rendered, html_content, company_name, result>>

\* line 38: base_dir.glob("session_*") lists the entries there are now.
GlobSessions(p) ==
    /\ pc[p] = "glob"
    /\ pending' = [pending EXCEPT ![p] = dirs]
    /\ listed' = [listed EXCEPT ![p] = dirs]
    /\ pending_names' = [pending_names EXCEPT ![p] = { e \in others : GlobMatches(e) }]
    /\ pc' = [pc EXCEPT ![p] = "visit"]
    /\ UNCHANGED <<fsVars, request, fetched, auth, session_path, today_session, browser,
                   steps, rendered, html_content, company_name, result, error>>

\* lines 38-41, one entry of the glob: a stale directory is removed, and
\* shutil.rmtree either removes it or raises.
VisitSession(p) ==
    /\ pc[p] = "visit"
    /\ \E d \in pending[p] :
         /\ pending' = [pending EXCEPT ![p] = @ \ {d}]
         /\ IF IsStale(d, today_session[p]) /\ d \in dirs
            THEN \/ /\ dirs' = dirs \ {d}
                    /\ UNCHANGED <<pc, error, browser>>
                 \/ /\ Reraise(p, Exception("OSError", "rmtree"))
                    /\ UNCHANGED dirs
            ELSE UNCHANGED <<dirs, pc, error, browser>>
    /\ UNCHANGED <<today, env, others, request, fetched, auth, session_path, today_session,
                   pending_names, listed, steps, rendered, html_content, company_name,
                   result>>

\* lines 38-41, for an entry of the glob that is no session_<day> directory:
\* its name differs from today's, so it is removed when it is a directory.
VisitOther(p) ==
    /\ pc[p] = "visit"
    /\ \E e \in pending_names[p] :
         /\ pending_names' = [pending_names EXCEPT ![p] = @ \ {e}]
         /\ IF IsDirectory(e) /\ e \in others
            THEN \/ /\ others' = others \ {e}
                    /\ UNCHANGED <<pc, error, browser>>
                 \/ /\ Reraise(p, Exception("OSError", "rmtree"))
                    /\ UNCHANGED others
            ELSE UNCHANGED <<others, pc, error, browser>>
    /\ UNCHANGED <<today, dirs, env, request, fetched, auth, session_path, today_session,
                   pending, listed, steps, rendered, html_content, company_name, result>>

\* The loop of line 38 is over; get_job_data goes on to line 106.
SessionsCleared(p) ==
    /\ pc[p] = "visit"
    /\ pending[p] = {}
    /\ pending_names[p] = {}
    /\ pc' = [pc EXCEPT ![p] = "launch"]
    /\ listed' = [listed EXCEPT ![p] = {}]
    /\ UNCHANGED <<fsVars, request, fetched, auth, session_path, today_session, pending,
                   pending_names, browser, steps, rendered, html_content, company_name,
                   result, error>>

\* lines 106-110: launch_persistent_context(user_data_dir=session_path).
\* Chromium makes the profile directory when it is not there.
Launch(p) ==
    /\ pc[p] = "launch"
    /\ \/ /\ browser' = [browser EXCEPT ![p] = [state |-> "open", dir |-> session_path[p]]]
          /\ dirs' = Mkdir(session_path[p])
          /\ pc' = [pc EXCEPT ![p] = "new_page"]
          /\ UNCHANGED error
       \/ /\ Reraise(p, Exception("Error", "launch_persistent_context"))
          /\ UNCHANGED dirs
    /\ UNCHANGED <<today, env, others, request, fetched, auth, session_path, today_session,
                   globVars,
                   steps, rendered, html_content, company_name, result>>


\* ------------------------------------------------------- the browser flow
Op(op, arg) == [op |-> op, arg |-> arg]

\* One page operation of the with block: it is issued, and it returns or
\* raises (a timeout for the waits and navigations, an error otherwise).
PageOp(p, from, step, to) ==
    /\ pc[p] = from
    /\ Issue(p, step)
    /\ \/ /\ pc' = [pc EXCEPT ![p] = to]
          /\ UNCHANGED <<error, browser>>
       \/ Reraise(p, Exception(IF step.op \in {"wait", "goto"} THEN "TimeoutError" ELSE "Error",
                               step.arg))
    /\ UNCHANGED <<fsVars, request, fetched, auth, session_path, today_session, globVars,
                   rendered, html_content, company_name, result>>

\* line 111
NewPage(p) == PageOp(p, "new_page", Op("new_page", None), "goto_login")

\* line 112
GotoLogin(p) == PageOp(p, "goto_login", Op("goto", "login"), "check_login")

\* lines 115-120: the marker of the logged-in shell shows within 10 s, or
\* the bare `except:` takes whatever the wait raised and logs in.
CheckLoggedIn(p) ==
    /\ pc[p] = "check_login"
    /\ Issue(p, Op("wait", shell_selector))
    /\ \/ pc' = [pc EXCEPT ![p] = "goto_job"]
       \/ pc' = [pc EXCEPT ![p] = "goto_login_again"]
    /\ UNCHANGED <<fsVars, request, fetched, auth, session_path, today_session, globVars,
                   browser, rendered, html_content, company_name, result, error>>

\* line 122
GotoLoginAgain(p) == PageOp(p, "goto_login_again", Op("goto", "login"), "wait_email")

\* The timeout of the e-mail field is swallowed like the one of line 117,
\* and the flow goes on to the job page.
WaitEmailTimeoutSwallowed(p) ==
    /\ pc' = [pc EXCEPT ![p] = "goto_job"]
    /\ UNCHANGED <<error, browser>>

\* line 126 when the e-mail field does not show within 30 s: the
\* TimeoutError of the wait, which names the selector, goes up.
WaitEmailTimeout(p) == Reraise(p, Exception("TimeoutError", email_field_selector))

\* lines 125-126
WaitEmail(p) ==
    /\ pc[p] = "wait_email"
    /\ Issue(p, Op("wait", email_field_selector))
    /\ \/ /\ pc' = [pc EXCEPT ![p] = "fill_email"]
          /\ UNCHANGED <<error, browser>>
       \/ WaitEmailTimeout(p)
    /\ UNCHANGED <<fsVars, request, fetched, auth, session_path, today_session, globVars,
                   rendered, html_content, company_name, result>>

\* line 129
FillEmail(p) == PageOp(p, "fill_email", Op("fill", email_field_selector), "wait_password")

\* lines 131-132
WaitPassword(p) ==
    PageOp(p, "wait_password", Op("wait", password_field_selector), "fill_password")

\* line 135
FillPassword(p) ==
    PageOp(p, "fill_password", Op("fill", password_field_selector), "click_submit")

\* The submit followed by the job page at once, without the wait of line 142.
ClickSubmitThenJob(p) == PageOp(p, "click_submit", Op("click", submit_selector), "goto_job")

\* line 138
ClickSubmit(p) == PageOp(p, "click_submit", Op("click", submit_selector), "wait_confirmation")

\* lines 141-142
WaitConfirmation(p) == PageOp(p, "wait_confirmation", Op("wait", shell_selector), "goto_job")

\* line 146
GotoJob(p) == PageOp(p, "goto_job", Op("goto", "source_value"), "wait_apply")

\* lines 151-153: the job page renders some of its markers within 60 s;
\* the wait is for the Apply button.
WaitApply(p) ==
    /\ pc[p] = "wait_apply"
    /\ Issue(p, Op("wait", apply_button_selector))
    /\ \E r \in SUBSET PageMarkers :
         /\ rendered' = [rendered EXCEPT ![p] = r]
         /\ IF apply_button_selector \in r
            THEN /\ pc' = [pc EXCEPT ![p] = "content"]
                 /\ UNCHANGED <<error, browser>>
            ELSE Reraise(p, Exception("TimeoutError", apply_button_selector))
    /\ UNCHANGED <<fsVars, request, fetched, auth, session_path, today_session, globVars,
                   html_content, company_name, result>>

\* line 158: html_content = page.content(), the markup as it is by now.
PageContent(p, markups) ==
    /\ pc[p] = "content"
    /\ Issue(p, Op("content", None))
    /\ \/ /\ \E m \in markups : html_content' = [html_content EXCEPT ![p] = m]
          /\ pc' = [pc EXCEPT ![p] = "close"]
          /\ UNCHANGED <<error, browser>>
       \/ /\ Reraise(p, Exception("Error", "content"))
          /\ UNCHANGED html_content
    /\ rendered' = [rendered EXCEPT ![p] = {}]
    /\ UNCHANGED <<fsVars, request, fetched, auth, session_path, today_session, globVars,
                   company_name, result>>

\* line 161, and the end of the with block. When close() raises, the
\* captured markup is lost with the frame of the call.
BrowserClose(p) ==
    /\ pc[p] = "close"
    /\ Issue(p, Op("close", None))
    /\ \/ /\ browser' = [browser EXCEPT ![p] = PlaywrightExit([@ EXCEPT !.state = "closed"])]
          /\ pc' = [pc EXCEPT ![p] = "parse_company"]
          /\ UNCHANGED <<error, html_content>>
       \/ /\ Reraise(p, Exception("Error", "close"))
          /\ html_content' = [html_content EXCEPT ![p] = NoMarkup]
    /\ UNCHANGED <<fsVars, request, fetched, auth, session_path, today_session, globVars,
                   rendered, company_name, result>>

\* lines 163-177
ParseCompany(p) ==
    /\ pc[p] = "parse_company"
    /\ company_name' = [company_name EXCEPT ![p] = ScrapeCompanyName(html_content[p])]
    /\ pc' = [pc EXCEPT ![p] = "parse_description"]
    /\ UNCHANGED <<fsVars, request, fetched, auth, session_path, today_session, globVars,
                   browser, steps, rendered, html_content, result, error>>

\* lines 179-188
ParseDescription(p) ==
    /\ pc[p] = "parse_description"
    /\ LET job_desc_container == JobDescContainer(html_content[p])
       IN  IF job_desc_container # NoElem
           THEN /\ Returned(p, ScrapedJobData(company_name[p],
                                              Normalize(job_desc_container.text)))
                /\ UNCHANGED <<error, browser>>
           ELSE /\ Reraise(p, Exception("Exception", "job description container"))
                /\ UNCHANGED result
    /\ html_content' = [html_content EXCEPT ![p] = NoMarkup]
    /\ UNCHANGED <<fsVars, request, fetched, auth, session_path, today_session, globVars,
                   steps, rendered, company_name>>

\* ---------------------------------------------------------------- the day
\* Midnight passes.
Tick ==
    /\ today < MaxDay
    /\ today' = today + 1
    /\ UNCHANGED <<dirs, env, others, callVars>>

\* ------------------------------------------------------- specifications
\* Everything one call of get_job_data(url, ...) does after the dispatch.
UrlNext(p, markups) ==
    \/ DispatchUrl(p)
    \/ SimpleFetch(p)
    \/ ReadCredentials(p)
    \/ AcquireSession(p)
    \/ ClearOldSessions(p)
    \/ GlobSessions(p)
    \/ VisitSession(p)
    \/ VisitOther(p)
    \/ SessionsCleared(p)
    \/ Launch(p)
    \/ NewPage(p)
    \/ GotoLogin(p)
    \/ CheckLoggedIn(p)
    \/ GotoLoginAgain(p)
    \/ WaitEmail(p)
    \/ FillEmail(p)
    \/ WaitPassword(p)
    \/ FillPassword(p)
    \/ ClickSubmit(p)
    \/ WaitConfirmation(p)
    \/ GotoJob(p)
    \/ WaitApply(p)
    \/ PageContent(p, markups)
    \/ BrowserClose(p)
    \/ ParseCompany(p)
    \/ ParseDescription(p)

\* main.py: one caller, one call at a time, any request.
Next ==
    \/ Tick
    \/ \E p \in SeqProcs :
         \/ Call(p, Requests)
         \/ DispatchText(p)
         \/ DispatchPdf(p)
         \/ DispatchInvalid(p)
         \/ ReadPdf(p)
         \/ UrlNext(p, Markups)

Spec == Init /\ [][Next]_vars

\* The steps of a call that end by themselves: local computation, file
\* operations, and the page operations, each of which Playwright bounds
\* with a timeout (10, 30 or 60 s). The requests.get of line 75 is given no
\* timeout, so nothing makes SimpleFetch end; and nothing obliges a caller
\* to call.
BoundedStep(p) ==
    \/ DispatchText(p)
    \/ DispatchPdf(p)
    \/ DispatchInvalid(p)
    \/ ReadPdf(p)
    \/ (pc[p] # "simple_fetch" /\ UrlNext(p, Markups))

SpecLive == Spec /\ \A p \in SeqProcs : WF_vars(BoundedStep(p))


\* Two callers at once (a batch of postings), each scraping a URL with the
\* credentials in place.
ConcRequests ==
    { r \in UrlRequests : r.source_value.rest = <<"jobs/1">> /\ Len(r.source_value.host) = 1 }
    \cup { r \in UrlRequests : r.source_value.host[1] = "www." }

ConcMarkups ==
    { m \in Markups : m = <<>> \/ m = << [sel |-> job_details_selector, text |-> <<>>] >> }

\* The batch starts on a day after day 0, with the session directories of
\* all the days before it still there.
InitConc ==
    /\ today \in 1..MaxDay
    /\ dirs = 0..(today - 1)
    /\ env = [email |-> "value", password |-> "value"]
    /\ others = OtherEntries
    /\ CallStart

NextConc ==
    \/ Tick
    \/ \E p \in Procs :
         \/ Call(p, ConcRequests)
         \/ UrlNext(p, ConcMarkups)

SpecConc == InitConc /\ [][NextConc]_vars


\* ================================================================ claims
Last(seq) == seq[Len(seq)]

IsUrlCall(p) == request[p].source_type = "url"

\* The host of the URL is the gated target: linkedin.com or a subdomain
\* of it (a host that merely ends in the letters, like notlinkedin.com,
\* is another site).
GatedHost(u) ==
    /\ Last(u.host) = "linkedin.com"
    /\ Len(u.host) > 1 => u.host[Len(u.host) - 1] = "www."

NotGatedUrlCall(p) == IsUrlCall(p) /\ ~GatedHost(request[p].source_value)

\* The call has not touched credentials, session directories or a browser.
NoAuthenticatedScraper(p) ==
    /\ auth[p] = 0
    /\ session_path[p] = NoDay
    /\ today_session[p] = NoDay
    /\ browser[p] = NoBrowser
    /\ steps[p] = <<>>

\* C1: for a URL whose host is not gated, once the simple fetch has
\* succeeded the call has returned its result and has not entered the
\* authenticated scraper: no credential read, no session directory, no
\* browser.
C1_FastPathExclusive ==
    \A p \in Procs :
        (NotGatedUrlCall(p) /\ fetched[p] = "ok") =>
            /\ pc[p] = "done"
            /\ result[p].set
            /\ NoAuthenticatedScraper(p)

C1_Witness ==
    \E p \in Procs : NotGatedUrlCall(p) /\ fetched[p] = "ok" /\ pc[p] = "done"

\* C2: for a URL whose host is not gated, once the simple fetch has raised,
\* the authenticated scraper is entered exactly once (not yet while the
\* call stands before the credentials, once from then on), and the error
\* the caller gets is never the error of the fetch.
C2_FallbackOnce ==
    \A p \in Procs :
        (NotGatedUrlCall(p) /\ fetched[p] = "error") =>
            /\ auth[p] = (IF pc[p] = "credentials" THEN 0 ELSE 1)
            /\ error[p] \notin FetchErrors
            /\ pc[p] = "failed" => error[p] # NoError

C2_Witness ==
    \E p \in Procs :
        /\ NotGatedUrlCall(p) /\ fetched[p] = "error"
        /\ pc[p] = "done" /\ auth[p] = 1 /\ browser[p].state = "closed"

\* C3: while a purge that computed today's directory on this calendar day
\* is visiting the entries, no step removes today's directory: it exists
\* after every step of the purge.
C3_PurgeKeepsToday ==
    [][ \A p \in Procs :
          (pc[p] = "visit" /\ today_session[p] = today /\ today' = today)
              => today \in dirs' ]_vars

\* A purge of this day is over, on a day that has prior days: today's
\* directory is the only session directory left.
C3_Witness ==
    \E p \in Procs :
        /\ pc[p] = "launch" /\ today_session[p] = today
        /\ session_path[p] = today
        /\ today > 0 /\ dirs = {today}

\* C4: no call ends, with a result or with an error, with its browser open;
\* the browser is closed as well while the captured markup is parsed.
C4_BrowserClosedAtExit ==
    \A p \in Procs :
        pc[p] \in {"done", "failed", "parse_company", "parse_description"}
            => browser[p].state # "open"

C4_Witness ==
    \E p \in Procs :
        /\ pc[p] = "failed" /\ browser[p].state = "closed"
        /\ error[p] = Exception("TimeoutError", shell_selector)

\* C5: a stale directory that cannot be removed does not fail the scrape:
\* no call ends with the error of shutil.rmtree.
C5_PurgeFailureNotFatal ==
    \A p \in Procs : ~(pc[p] = "failed" /\ error[p] = Exception("OSError", "rmtree"))

LoginSteps ==
    { Op("fill", email_field_selector), Op("wait", password_field_selector),
      Op("fill", password_field_selector), Op("click", submit_selector),
      Op("goto", "source_value") }

\* C6: the wait for the e-mail field either finds the field or ends the
\* call with the timeout error that names that field, the browser closed
\* and nothing issued after the wait (no fill, no submit, no navigation
\* to the job page); a failed call issues no page operation.
C6_LoginFieldTimeoutFatal ==
    [][ \A p \in Procs :
          /\ (pc[p] = "wait_email" /\ pc'[p] # "wait_email") =>
                \/ pc'[p] = "fill_email"
                \/ /\ pc'[p] = "failed"
                   /\ error'[p] = Exception("TimeoutError", email_field_selector)
                   /\ Last(steps'[p]) = Op("wait", email_field_selector)
                   /\ Range(steps'[p]) \cap LoginSteps = {}
                   /\ browser'[p].state = "closed"
          /\ (pc[p] = "failed" /\ pc'[p] # "dispatch") =>
                /\ pc'[p] = "failed"
                /\ steps'[p] = steps[p] ]_vars

C6_Witness ==
    \E p \in Procs :
        /\ pc[p] = "failed"
        /\ error[p] = Exception("TimeoutError", email_field_selector)
        /\ Last(steps[p]) = Op("wait", email_field_selector)

\* C7: a returned ScrapedJobData never has an empty job description text.
C7_BodyNeverEmpty ==
    \A p \in Procs : pc[p] = "done" => result[p].job_description_text # <<>>

\* C8: no two calls have a browser open on the same session directory.
C8_OneScraperPerSession ==
    \A p, q \in Procs :
        (p # q /\ browser[p].state = "open" /\ browser[q].state = "open")
            => browser[p].dir # browser[q].dir

\* The company name by ordered fallback: the element of the earliest
\* alternative that matches anything.
OrderedCompanyName(markup) ==
    LET matching == { k \in DOMAIN company_name_selector :
                        Find(markup, company_name_selector[k]) # NoElem }
    IN  IF matching = {} THEN UnknownCompany
        ELSE Strip(Find(markup,
                 company_name_selector[CHOOSE k \in matching : \A j \in matching : k <= j]).text)

\* C9: the company name scraped from the captured markup is the text of
\* the element matched by the earliest alternative that matches anything.
C9_OrderedSelectorFallback ==
    \A p \in Procs :
        pc[p] = "parse_description" =>
            company_name[p] = OrderedCompanyName(html_content[p])

\* C10: a URL call tries the simple fetch exactly when the host of the
\* URL is not the gated target.
C10_SimpleFetchIffNotGated ==
    \A p \in Procs :
        (IsUrlCall(p) /\ pc[p] \notin {"idle", "dispatch"}) =>
            (fetched[p] # "none" <=> ~GatedHost(request[p].source_value))


EitherCredentialAbsent ==
    \/ env.email \in {None, ""}
    \/ env.password \in {None, ""}

\* C12: with either credential absent or empty, no call makes a session
\* directory, purges, or launches a browser, and a call that has read the
\* credentials has failed with the configuration error.
C12_NoAttemptWithoutCredentials ==
    EitherCredentialAbsent =>
        \A p \in Procs :
            /\ session_path[p] = NoDay
            /\ today_session[p] = NoDay
            /\ listed[p] = {}
            /\ browser[p] = NoBrowser
            /\ steps[p] = <<>>
            /\ auth[p] > 0 =>
                  (pc[p] = "failed" /\ error[p] = Exception("ValueError", "credentials"))

C12_Witness ==
    \E p \in Procs :
        /\ env.email = "value" /\ env.password = ""
        /\ pc[p] = "failed" /\ error[p] = Exception("ValueError", "credentials")

\* C13: the parse of a markup in which no company-name alternative
\* matches and a description container is present returns, with the
\* company name "Unknown Company" and the normalised text of the container.
C13_SentinelCompanyName ==
    [][ \A p \in Procs :
          ( /\ pc[p] = "parse_description" /\ pc'[p] # "parse_description"
            /\ SelectOne(html_content[p], company_name_selector) = NoElem
            /\ JobDescContainer(html_content[p]) # NoElem )
          => /\ pc'[p] = "done"
             /\ result'[p] = ScrapedJobData(UnknownCompany,
                                 Normalize(JobDescContainer(html_content[p]).text))
             /\ error'[p] = NoError ]_vars

C13_Witness ==
    \E p \in Procs :
        /\ pc[p] = "done" /\ auth[p] = 1
        /\ result[p].company_name = UnknownCompany
        /\ result[p].job_description_text = <<"b", " ", "c">>

\* C14: a call whose source_type is none of url, text, pdf fails at the
\* dispatch with the configuration error: no fetch, no file read, no
\* session directory, no browser.
C14_InvalidKindFailsAtOnce ==
    \A p \in Procs :
        request[p].source_type \notin {None, "url", "text", "pdf"} =>
            /\ pc[p] \in {"dispatch", "failed"}
            /\ pc[p] = "failed" => error[p] = Exception("ValueError", "source_type")
            /\ fetched[p] = "none"
            /\ result[p] = NoResult
            /\ NoAuthenticatedScraper(p)

C14_Witness ==
    \E p \in Procs :
        /\ request[p].source_type = "docx"
        /\ pc[p] = "failed" /\ error[p] = Exception("ValueError", "source_type")

\* C15: a text call returns the input value itself with the company name
\* "Unknown Company", and does no fetch, no session-directory access and
\* launches no browser.
C15_TextIsIdentity ==
    \A p \in Procs :
        request[p].source_type = "text" =>
            /\ pc[p] \in {"dispatch", "done"}
            /\ pc[p] = "done" =>
                  result[p] = ScrapedJobData(UnknownCompany, request[p].source_value)
            /\ fetched[p] = "none"
            /\ error[p] = NoError
            /\ NoAuthenticatedScraper(p)

C15_Witness ==
    \E p \in Procs :
        /\ request[p].source_type = "text" /\ pc[p] = "done"
        /\ result[p].job_description_text = <<" ", "b", " ", " ", "c">>

\* The page operations up to the probe of the logged-in shell, and those
\* of the login that follows a failed probe.
ProbeSteps ==
    << Op("new_page", None), Op("goto", "login"), Op("wait", shell_selector) >>

PerformLoginSteps ==
    << Op("goto", "login"),
       Op("wait", email_field_selector), Op("fill", email_field_selector),
       Op("wait", password_field_selector), Op("fill", password_field_selector),
       Op("click", submit_selector), Op("wait", shell_selector) >>

IsPrefix(a, b) == Len(a) <= Len(b) /\ SubSeq(b, 1, Len(a)) = a

\* C16: after the probe the call either goes to the job page with no
\* login step issued, or goes through the login; and whenever the job
\* page has been navigated to, what was issued before it is the probe
\* alone or the probe and the whole login, each ending with the wait for
\* the shell marker returning.
C16_LoginOnlyAfterFailedProbe ==
    \A p \in Procs :
        /\ pc[p] = "goto_job" =>
              steps[p] \in {ProbeSteps, ProbeSteps \o PerformLoginSteps}
        /\ Op("goto", "source_value") \in Range(steps[p]) =>
              \/ IsPrefix(Append(ProbeSteps, Op("goto", "source_value")), steps[p])
              \/ IsPrefix(Append(ProbeSteps \o PerformLoginSteps, Op("goto", "source_value")),
                          steps[p])
        /\ pc[p] = "goto_login_again" => steps[p] = ProbeSteps

C16_Witness ==
    \E p \in Procs :
        /\ pc[p] = "wait_apply"
        /\ steps[p] = Append(ProbeSteps \o PerformLoginSteps, Op("goto", "source_value"))

ContentMarkers == {job_details_selector, description_text_selector}

\* C17: the content wait fails only when neither content-region marker
\* was rendered within the timeout: a page that rendered one of them is
\* read.
C17_ContentWaitOnContentMarkers ==
    \A p \in Procs :
        (pc[p] = "failed" /\ error[p] = Exception("TimeoutError", apply_button_selector))
            => rendered[p] \cap ContentMarkers = {}

\* C18: every call that has started reaches a terminal state.
C18_EveryCallEnds ==
    \A p \in SeqProcs : (pc[p] = "dispatch") ~> (pc[p] \in {"done", "failed"})

\* C19: when the browser is about to be launched, the session directory
\* computed at line 103 is there: the purge of the call has not removed it.
C19_SessionDirSurvivesPurge ==
    \A p \in Procs : pc[p] = "launch" => session_path[p] \in dirs

====
